---- MODULE Spec2Model ----
(***************************************************************************)
(* FitFuture (src/main.py): the workout store, the profile, the reference  *)
(* dataset cache and the fitness summary engine, as a state machine.       *)
(*                                                                         *)
(* Values.  Python and SQLite values are tagged records, so that values of *)
(* different types can be compared:                                        *)
(*   [k |-> "null"]                  SQL NULL / Python None                *)
(*   [k |-> "int", v |-> i]          an integer                            *)
(*   [k |-> "text", s |-> chars]     a string, as a sequence of characters *)
(*   [k |-> "num", n |-> a, d |-> b] a float, kept as the exact fraction   *)
(*                                   a/b in lowest terms with b > 0        *)
(*   [k |-> "nan"]                   a missing cell of a dataframe (NaN)   *)
(* Floats are modelled exactly: rounding of binary floating point is not   *)
(* part of the model.  A calendar date is a day number; the ISO text of a  *)
(* date is [k |-> "iso", day |-> n], whose text order is the order of the  *)
(* day numbers (fixed-width YYYY-MM-DD), and any other submitted date text *)
(* is a "text" value.                                                      *)
(***************************************************************************)
EXTENDS Integers, Sequences, FiniteSets, TLC

VARIABLES
    workout_sessions, \* table workout_sessions: workout_id -> row
    next_workout_id,  \* the AUTOINCREMENT counter of workout_sessions
    user_profiles,    \* table user_profiles: user_id -> row
    files,            \* the three dataset files beside main.py (never written)
    EXTERNAL_STATS,   \* global EXTERNAL_STATS (main.py:10)
    DATAFRAMES,       \* global DATAFRAMES (main.py:11)
    reads,            \* how many times pd.read_csv has been called
    threads,          \* the threads inside compute_external_stats
    ret,              \* what the latest request or call returned or raised
    args,             \* arguments of a call of a pure helper
    out               \* what that call returned or raised

vars == <<workout_sessions, next_workout_id, user_profiles, files,
          EXTERNAL_STATS, DATAFRAMES, reads, threads, ret, args, out>>

appVars == <<workout_sessions, next_workout_id, user_profiles, files,
             EXTERNAL_STATS, DATAFRAMES, reads, threads, ret>>

-----------------------------------------------------------------------------
(* Bounds of the model *)

MaxWorkouts == 3   \* rows ever inserted into workout_sessions
MaxLen == 3        \* length of a sample handed to percentile_rank
MaxThreads == 2    \* threads that call compute_external_stats at once
Today == 40        \* date.today(), as a day number

(* Program constants *)

WindowDays == 30   \* timedelta(days=30)
ScoreCap == 10     \* min(10, ...)
MinutesPerPoint == 30
AgeWindow == 2
SeedAge == 22

-----------------------------------------------------------------------------
(* Values *)

Null == [k |-> "null"]
NaN == [k |-> "nan"]
IntV(i) == [k |-> "int", v |-> i]
TextV(s) == [k |-> "text", s |-> s]
IsoV(n) == [k |-> "iso", day |-> n]

Ok(v) == [k |-> "ok", v |-> v]
Raise(e) == [k |-> "raise", e |-> e]

Abs(i) == IF i < 0 THEN -i ELSE i

RECURSIVE GCD(_, _)
GCD(a, b) == IF b = 0 THEN a ELSE GCD(b, a % b)

\* the float a/b (b # 0), in lowest terms
Rat(a, b) ==
    LET g == GCD(Abs(a), Abs(b))
        s == IF b < 0 THEN -1 ELSE 1
    IN [k |-> "num", n |-> (s * a) \div g, d |-> (s * b) \div g]

RLe(x, y) == x.n * y.d <= y.n * x.d
RLt(x, y) == x.n * y.d < y.n * x.d
RAdd(x, y) == Rat(x.n * y.d + y.n * x.d, x.d * y.d)
RMul(x, y) == Rat(x.n * y.n, x.d * y.d)
RDivInt(x, i) == Rat(x.n, x.d * i)
RMin(x, y) == IF RLe(y, x) THEN y ELSE x

-----------------------------------------------------------------------------
(* Python's int() and float() on the strings the model submits *)

DigitChars == <<"0", "1", "2", "3", "4", "5", "6", "7", "8", "9">>
Digits == {DigitChars[i] : i \in 1..10}
DigitVal(c) == (CHOOSE i \in 1..10 : DigitChars[i] = c) - 1

IsDigits(s) == Len(s) > 0 /\ \A i \in 1..Len(s) : s[i] \in Digits

RECURSIVE DigitsVal(_)
DigitsVal(s) ==
    IF s = <<>> THEN 0
    ELSE 10 * DigitsVal(SubSeq(s, 1, Len(s) - 1)) + DigitVal(s[Len(s)])

\* int(s): an optional sign and decimal digits, ValueError otherwise
PyInt(s) ==
    IF IsDigits(s) THEN Ok(DigitsVal(s))
    ELSE IF Len(s) > 1 /\ s[1] = "-" /\ IsDigits(Tail(s)) THEN Ok(-DigitsVal(Tail(s)))
    ELSE IF Len(s) > 1 /\ s[1] = "+" /\ IsDigits(Tail(s)) THEN Ok(DigitsVal(Tail(s)))
    ELSE Raise("ValueError")

\* float(x) of a dataframe cell that is not missing
PyFloat(x) ==
    IF x.k = "num" THEN Ok(x)
    ELSE LET p == PyInt(x.s)
         IN IF p.k = "ok" THEN Ok(Rat(p.v, 1)) ELSE Raise("ValueError")

\* pd.notnull(x)
notnull(x) == x.k # "nan"

-----------------------------------------------------------------------------
(* percentile_rank (main.py:151-156) *)

\* [float(x) for x in series if pd.notnull(x)]: the floats, or the exception
RECURSIVE CleanSeries(_)
CleanSeries(series) ==
    IF series = <<>> THEN Ok(<<>>)
    ELSE LET x == Head(series)
             rest == CleanSeries(Tail(series))
         IN IF ~notnull(x) THEN rest
            ELSE IF PyFloat(x).k = "raise" THEN PyFloat(x)
            ELSE IF rest.k = "raise" THEN rest
            ELSE Ok(<<PyFloat(x).v>> \o rest.v)

\* the mutation: strictly below instead of at or below (main.py:155)
RECURSIVE CountLeStrict(_, _)
CountLeStrict(series, value) ==
    IF series = <<>> THEN 0
    ELSE (IF RLt(Head(series), value) THEN 1 ELSE 0) + CountLeStrict(Tail(series), value)

\* the mutation: the count starts at 1 instead of 0 (main.py:155)
RECURSIVE CountLeFromOne(_, _)
CountLeFromOne(series, value) ==
    IF series = <<>> THEN 1
    ELSE (IF RLe(Head(series), value) THEN 1 ELSE 0) + CountLeFromOne(Tail(series), value)

\* sum(1 for x in series if x <= value)
RECURSIVE CountLe(_, _)
CountLe(series, value) ==
    IF series = <<>> THEN 0
    ELSE (IF RLe(Head(series), value) THEN 1 ELSE 0) + CountLe(Tail(series), value)

percentile_rank(series, value) ==
    LET cleaned == CleanSeries(series)
    IN IF cleaned.k = "raise" THEN cleaned
       ELSE IF cleaned.v = <<>> THEN Ok(Null)
       ELSE Ok(Rat(100 * CountLe(cleaned.v, value), Len(cleaned.v)))

-----------------------------------------------------------------------------
(* Python truthiness and dict helpers *)

\* bool(v) of a value read from a form, a row or the result dict
Truthy(v) ==
    CASE v.k = "null" -> FALSE
      [] v.k = "nan" -> TRUE
      [] v.k = "int" -> v.v # 0
      [] v.k = "num" -> v.n # 0
      [] v.k = "text" -> v.s # <<>>
      [] v.k = "iso" -> TRUE

EmptyDict == [x \in {} |-> Null]

\* d[key] = v
Put(d, key, v) == (key :> v) @@ d

\* d.get(key)
Get(d, key) == IF key \in DOMAIN d THEN d[key] ELSE Null

-----------------------------------------------------------------------------
(* The three tables after init_db (main.py:24-81) and SQLite's storage rules *)

\* column affinity INTEGER: a text that reads as an integer is stored as one
IntegerAffinity(v) ==
    IF v.k = "text" /\ PyInt(v.s).k = "ok" THEN IntV(PyInt(v.s).v) ELSE v

LowerChars == <<"a", "b", "c", "d", "e", "f", "g", "h", "i", "j", "k", "l", "m",
                "n", "o", "p", "q", "r", "s", "t", "u", "v", "w", "x", "y", "z">>
UpperChars == <<"A", "B", "C", "D", "E", "F", "G", "H", "I", "J", "K", "L", "M",
                "N", "O", "P", "Q", "R", "S", "T", "U", "V", "W", "X", "Y", "Z">>
Letters == {LowerChars[i] : i \in 1..26} \cup {UpperChars[i] : i \in 1..26}

\* workout_date >= ? on two TEXT values (bytewise order).  Two ISO texts compare
\* as their days; a text that is empty sorts below every ISO text and a text
\* that starts with a letter sorts above it (letters follow digits in ASCII).
TextGe(a, b) ==
    CASE a.k = "iso" /\ b.k = "iso" -> a.day >= b.day
      [] a.k = "text" /\ b.k = "iso" -> a.s # <<>> /\ a.s[1] \in Letters
      [] OTHER -> FALSE

\* datetime.fromisoformat(text).date()
fromisoformat(t) == IF t.k = "iso" THEN Ok(t.day) ELSE Raise("ValueError")

\* date.isoformat()
isoformat(day) == IsoV(day)

SeedProfile == [age |-> IntV(SeedAge), gender |-> TextV(<<"M">>)]

-----------------------------------------------------------------------------
(* Request forms.  A form is a function from the submitted field names to    *)
(* their texts.                                                            *)

T1(a) == TextV(<<a>>)
T2(a, b) == TextV(<<a, b>>)
T3(a, b, c) == TextV(<<a, b, c>>)

WorkoutForm(u, date, dur) ==
    [user_id |-> u, workout_date |-> date, total_duration_minutes |-> dur,
     perceived_intensity |-> T1("7")]

WorkoutForms ==
    { WorkoutForm(T1("1"), IsoV(Today - 9), T2("3", "0")),
      WorkoutForm(T1("1"), IsoV(Today - 4), T2("4", "5")),
      WorkoutForm(T1("1"), IsoV(Today), T2("6", "0")),
      WorkoutForm(T1("1"), IsoV(Today + 1), T2("3", "0")),
      WorkoutForm(T1("1"), IsoV(Today - WindowDays), T1("0")),
      WorkoutForm(T1("1"), IsoV(Today - WindowDays - 1), T2("6", "0")),
      WorkoutForm(T1("1"), IsoV(Today), T3("-", "3", "0")),
      [user_id |-> T1("1"), workout_date |-> IsoV(Today),
       total_duration_minutes |-> TextV(<<>>)],
      WorkoutForm(T1("1"), TextV(<<"s", "o", "o", "n">>), T2("3", "0")),
      WorkoutForm(T1("2"), IsoV(Today), T2("3", "0")),
      WorkoutForm(T1("1"), IsoV(Today), T3("a", "b", "c")),
      [workout_date |-> IsoV(Today), total_duration_minutes |-> T2("3", "0")] }

\* the forms submitted from the edit page
EditForms ==
    { WorkoutForm(T1("1"), IsoV(Today), T2("6", "0")),
      WorkoutForm(T1("1"), IsoV(Today + 1), T2("3", "0")),
      WorkoutForm(T1("1"), TextV(<<"s", "o", "o", "n">>), T2("3", "0")),
      WorkoutForm(T1("1"), IsoV(Today), T3("-", "3", "0")),
      WorkoutForm(T1("1"), IsoV(Today), T3("a", "b", "c")) }

ProfileForms ==
    { [gender |-> T1("M")],
      [age |-> T2("2", "5")],
      [age |-> T3("a", "b", "c"), gender |-> T1("M")] }

UserIds == {1, 2}

-----------------------------------------------------------------------------
(* The dataset files.  A file is absent, unreadable as CSV, or a table: its  *)
(* column names and its rows, each row a function from column name to cell. *)

HOURS == "Session_Duration (hours)"

N(i) == Rat(i, 1)

Hf365Row(a, g, m) == [age |-> a, gender |-> g, exercise_minutes |-> m]
GymRow(a, g, h) == ("Age" :> a) @@ ("Gender" :> g) @@ (HOURS :> h)

Hf365Table ==
    [k |-> "csv", columns |-> <<"age", "gender", "exercise_minutes">>,
     rows |-> << Hf365Row(N(23), T1("M"), N(10)),
                 Hf365Row(N(25), TextV(<<"m", "a", "l", "e">>), N(20)),
                 Hf365Row(N(20), T1("M"), NaN),
                 Hf365Row(N(28), T1("M"), N(5)),
                 Hf365Row(N(24), T1("F"), N(30)) >>]

\* a metric column that pandas read as text
Hf365TextTable ==
    [k |-> "csv", columns |-> <<"age", "gender", "exercise_minutes">>,
     rows |-> << Hf365Row(N(23), T1("M"), T2("1", "0")),
                 Hf365Row(N(21), T1("M"), T3("l", "o", "w")) >>]

GymTable ==
    [k |-> "csv", columns |-> <<"Age", "Gender", HOURS>>,
     rows |-> << GymRow(N(24), TextV(<<"M", "a", "l", "e">>), Rat(1, 2)),
                 GymRow(N(25), TextV(<<"M", "a", "l", "e">>), Rat(3, 2)),
                 GymRow(N(22), TextV(<<"F", "e", "m", "a", "l", "e">>), N(1)) >>]

\* a gym table whose rows near age 22 have no session duration
GymGapsTable ==
    [k |-> "csv", columns |-> <<"Age", "Gender", HOURS>>,
     rows |-> << GymRow(N(22), TextV(<<"M", "a", "l", "e">>), NaN),
                 GymRow(N(24), TextV(<<"m", "a", "l", "e">>), NaN),
                 GymRow(N(27), TextV(<<"M", "a", "l", "e">>), Rat(3, 2)),
                 GymRow(N(22), TextV(<<"F", "e", "m", "a", "l", "e">>), N(1)) >>]

HealthTable ==
    [k |-> "csv", columns |-> <<"resting_heart_rate">>,
     rows |-> << [resting_heart_rate |-> N(60)], [resting_heart_rate |-> N(70)] >>]

Absent == [k |-> "absent"]
Unreadable == [k |-> "bad"]

\* what may lie beside main.py when the process starts
FileSystems ==
    { [gym |-> Absent, hf365 |-> Absent, health |-> Absent],
      [gym |-> GymGapsTable, hf365 |-> Hf365Table, health |-> HealthTable],
      [gym |-> Unreadable, hf365 |-> Hf365TextTable, health |-> Absent],
      [gym |-> GymTable, hf365 |-> Absent, health |-> Absent] }

HasColumn(df, col) == \E i \in 1..Len(df.columns) : df.columns[i] = col

\* df[col] as a list of cells (the column is known to exist)
Column(rows, col) == [i \in 1..Len(rows) |-> rows[i][col]]

RECURSIVE RSum(_)
RSum(xs) == IF xs = <<>> THEN N(0) ELSE RAdd(Head(xs), RSum(Tail(xs)))

\* Series.mean(): missing cells are skipped; a text column cannot be averaged
mean(cells) ==
    LET present == SelectSeq(cells, notnull)
    IN IF \E i \in 1..Len(present) : present[i].k = "text" THEN Raise("TypeError")
       ELSE IF present = <<>> THEN Ok(NaN)
       ELSE Ok(RDivInt(RSum(present), Len(present)))

-----------------------------------------------------------------------------
(* compute_external_stats (main.py:88-135) *)

datasets ==
    << [key |-> "gym", label |-> "Gym Members Exercise Tracking",
        metrics |-> << [col |-> HOURS, stat |-> "avg_session_hours"] >>],
       [key |-> "hf365", label |-> "Health Fitness Tracking 365 Days",
        metrics |-> << [col |-> "exercise_minutes", stat |-> "avg_exercise_minutes"] >>],
       [key |-> "health", label |-> "General Health + Wellness Dataset",
        metrics |-> << [col |-> "resting_heart_rate", stat |-> "avg_resting_hr"],
                       [col |-> "hours_sleep", stat |-> "avg_sleep_hours"] >>] >>

\* lines 115-127: the averages of the columns that exist, up to the first failure
RECURSIVE AddMeans(_, _, _)
AddMeans(entry, df, metrics) ==
    IF metrics = <<>> THEN entry
    ELSE LET m == Head(metrics)
         IN IF ~HasColumn(df, m.col) THEN AddMeans(entry, df, Tail(metrics))
            ELSE LET r == mean(Column(df.rows, m.col))
                 IN IF r.k = "raise" THEN Put(entry, "error", r.e)
                    ELSE AddMeans(Put(entry, m.stat, r.v), df, Tail(metrics))

\* a load that registers an absent file as an empty table
LoadDatasetEmptyForAbsent(ds, file, frames) ==
    LET entry == [name |-> ds.label, exists |-> FALSE]
    IN CASE file.k = "absent" ->
              [entry |-> entry, read |-> 0,
               frames |-> Put(frames, ds.key, [columns |-> <<>>, rows |-> <<>>])]
         [] file.k = "bad" ->
              [entry |-> Put(entry, "error", "ParserError"), frames |-> frames, read |-> 1]
         [] file.k = "csv" ->
              [entry |-> AddMeans(
                    Put(Put(Put(entry, "exists", TRUE), "num_rows", Len(file.rows)),
                        "num_cols", Len(file.columns)),
                    file, ds.metrics),
               frames |-> Put(frames, ds.key, [columns |-> file.columns, rows |-> file.rows]),
               read |-> 1]

\* lines 104-132 for one dataset: its entry, the dataframe cache afterwards and
\* the number of calls of pd.read_csv
LoadDataset(ds, file, frames) ==
    LET entry == [name |-> ds.label, exists |-> FALSE]
    IN CASE file.k = "absent" -> [entry |-> entry, frames |-> frames, read |-> 0]
         [] file.k = "bad" ->
              [entry |-> Put(entry, "error", "ParserError"), frames |-> frames, read |-> 1]
         [] file.k = "csv" ->
              [entry |-> AddMeans(
                    Put(Put(Put(entry, "exists", TRUE), "num_rows", Len(file.rows)),
                        "num_cols", Len(file.columns)),
                    file, ds.metrics),
               frames |-> Put(frames, ds.key, [columns |-> file.columns, rows |-> file.rows]),
               read |-> 1]

\* lines 101-134: the loop over the datasets, from the i-th on
RECURSIVE LoadFrom(_, _, _, _)
LoadFrom(i, stats, frames, n) ==
    IF i > Len(datasets) THEN [stats |-> stats, frames |-> frames, reads |-> n]
    ELSE LET l == LoadDataset(datasets[i], files[datasets[i].key], frames)
         IN LoadFrom(i + 1, Put(stats, datasets[i].key, l.entry), l.frames, n + l.read)

\* a call that loads again although the cache is filled
StatsAlwaysLoaded ==
    [cached |-> FALSE] @@ LoadFrom(1, EmptyDict, DATAFRAMES, reads)

\* the globals after a call of compute_external_stats(), and whether the call
\* returned the cache at lines 90-91
StatsAfterCall ==
    IF DOMAIN EXTERNAL_STATS # {}
    THEN [stats |-> EXTERNAL_STATS, frames |-> DATAFRAMES, reads |-> reads, cached |-> TRUE]
    ELSE [cached |-> FALSE] @@ LoadFrom(1, EmptyDict, DATAFRAMES, reads)

-----------------------------------------------------------------------------
(* compute_fitness_summary (main.py:159-233) *)

\* get_user_profile (main.py:142-148)
get_user_profile(user_id) ==
    IF user_id \in DOMAIN user_profiles THEN user_profiles[user_id] ELSE Null

\* line 166
window == isoformat(Today - WindowDays)

\* the WHERE clause of lines 168-172 on one stored row
InQuery(row, user_id) ==
    /\ row.user_id = IntV(user_id)
    /\ TextGe(row.workout_date, window)
    /\ row.total_duration_minutes # Null

\* cur.fetchall(): the ids of the selected rows, in rowid order
RECURSIVE FetchFrom(_, _)
FetchFrom(i, user_id) ==
    IF i >= next_workout_id THEN <<>>
    ELSE (IF i \in DOMAIN workout_sessions /\ InQuery(workout_sessions[i], user_id)
          THEN <<i>> ELSE <<>>) \o FetchFrom(i + 1, user_id)

RECURSIVE Sum(_)
Sum(xs) == IF xs = <<>> THEN 0 ELSE Head(xs) + Sum(Tail(xs))

Max(S) == CHOOSE x \in S : \A y \in S : y <= x
Min(S) == CHOOSE x \in S : \A y \in S : x <= y

\* line 186 without the cap
ScoreUncapped(weekly) == RDivInt(weekly, MinutesPerPoint)

\* line 186
Score(weekly) == RMin(N(ScoreCap), RDivInt(weekly, MinutesPerPoint))

\* line 187 without the cap
ProjectedUncapped(score) == RAdd(score, N(1))

\* line 187
Projected(score) == RMin(N(ScoreCap), RAdd(score, N(1)))

\* line 183 without the +1
SpanExclusive(days) == IF Max(days) - Min(days) > 1 THEN Max(days) - Min(days) ELSE 1

\* line 183 (dates is not empty)
Span(days) == IF Max(days) - Min(days) + 1 > 1 THEN Max(days) - Min(days) + 1 ELSE 1

\* lines 177-198: the history part of the result, or the exception of line 182
History(ids) ==
    IF ids = <<>> THEN Ok([has_data |-> FALSE])
    ELSE LET durations == [i \in 1..Len(ids) |->
                              workout_sessions[ids[i]].total_duration_minutes.v]
             total == Sum(durations)
             avg == Rat(total, Len(durations))
             parsed == [i \in 1..Len(ids) |->
                           fromisoformat(workout_sessions[ids[i]].workout_date)]
         IN IF \E i \in 1..Len(ids) : parsed[i].k = "raise" THEN Raise("ValueError")
            ELSE LET span == Span({parsed[i].v : i \in 1..Len(ids)})
                     weekly == Rat(total * 7, span)
                     score == Score(weekly)
                     proj == Projected(score)
                 IN Ok([has_data |-> TRUE,
                        total_minutes_30d |-> N(total),
                        avg_duration |-> avg,
                        weekly_minutes |-> weekly,
                        current_score |-> score,
                        projected_score |-> proj])

\* str(x)[0].upper() of a gender cell: .astype(str).str[0].str.upper()
Upper(c) ==
    IF \E i \in 1..26 : LowerChars[i] = c
    THEN UpperChars[CHOOSE i \in 1..26 : LowerChars[i] = c] ELSE c

RECURSIVE LeadDigit(_)
LeadDigit(i) == IF i < 10 THEN i ELSE LeadDigit(i \div 10)

GenderCode(cell) ==
    CASE cell.k = "nan" -> <<"N">>
      [] cell.k = "text" -> IF cell.s = <<>> THEN <<>> ELSE <<Upper(cell.s[1])>>
      [] cell.k = "num" ->
           IF cell.n < 0 THEN <<"-">> ELSE <<DigitChars[LeadDigit(cell.n \div cell.d) + 1]>>

\* the mutation: both ends of the interval excluded (main.py:212)
betweenOpen(cell, lo, hi) == cell.k = "num" /\ RLt(N(lo), cell) /\ RLt(cell, N(hi))

\* Series.between(lo, hi) on one cell of a numeric column
between(cell, lo, hi) == cell.k = "num" /\ RLe(N(lo), cell) /\ RLe(cell, N(hi))

\* lines 211-214 and 224-227: the cohort rows, or the exception of the lookup
Cohort(df, ageCol, genderCol, age, gender) ==
    IF ~HasColumn(df, ageCol) THEN Raise("KeyError")
    ELSE IF \E i \in 1..Len(df.rows) : df.rows[i][ageCol].k = "text" THEN Raise("TypeError")
    ELSE IF ~HasColumn(df, genderCol) THEN Raise("KeyError")
    ELSE Ok(SelectSeq(df.rows,
              LAMBDA r : /\ between(r[ageCol], age - AgeWindow, age + AgeWindow)
                         /\ GenderCode(r[genderCol]) = gender.s))

RECURSIVE Repeat(_, _)
Repeat(s, times) == IF times = 0 THEN <<>> ELSE s \o Repeat(s, times - 1)

\* cell * 60 (line 230)
Times60(cell) ==
    CASE cell.k = "num" -> RMul(cell, N(60))
      [] cell.k = "nan" -> NaN
      [] cell.k = "text" -> TextV(Repeat(cell.s, 60))

\* lines 209-219
Hf365Part(result, frames, age, gender) ==
    IF "hf365" \notin DOMAIN frames THEN Ok(result)
    ELSE LET cohort == Cohort(frames["hf365"], "age", "gender", age, gender)
         IN IF cohort.k = "raise" THEN cohort
            ELSE IF cohort.v = <<>> THEN Ok(result)
            ELSE IF ~HasColumn(frames["hf365"], "exercise_minutes") THEN Raise("KeyError")
            ELSE LET daily_equiv == RDivInt(result["weekly_minutes"], 7)
                     p == percentile_rank(Column(cohort.v, "exercise_minutes"), daily_equiv)
                 IN IF p.k = "raise" THEN p
                    ELSE Ok(Put(result, "hf365_percentile", p.v))

\* lines 222-231
GymPart(result, frames, age, gender) ==
    IF "gym" \notin DOMAIN frames THEN Ok(result)
    ELSE LET cohort == Cohort(frames["gym"], "Age", "Gender", age, gender)
         IN IF cohort.k = "raise" THEN cohort
            ELSE IF cohort.v = <<>> \/ ~Truthy(Get(result, "avg_duration")) THEN Ok(result)
            ELSE IF ~HasColumn(frames["gym"], HOURS) THEN Raise("KeyError")
            ELSE LET hours == Column(cohort.v, HOURS)
                     mins == [i \in 1..Len(hours) |-> Times60(hours[i])]
                     p == percentile_rank(mins, result["avg_duration"])
                 IN IF p.k = "raise" THEN p
                    ELSE Ok(Put(result, "gym_percentile", p.v))

\* lines 202-233: the profile part, on the result of the history part
CohortPart(result, profile, frames) ==
    IF profile = Null THEN Raise("AttributeError")
    ELSE LET age == profile.age
             gender == profile.gender
         IN IF ~(Truthy(age) /\ Truthy(gender) /\ Truthy(Get(result, "weekly_minutes")))
            THEN Ok(result)
            ELSE IF age.k # "int" THEN Raise("TypeError")
            ELSE LET label == [lo |-> age.v - AgeWindow, hi |-> age.v + AgeWindow,
                               word |-> IF gender = T1("M") THEN "males" ELSE "females"]
                     r1 == Hf365Part(Put(result, "cohort_label", label), frames, age.v, gender)
                 IN IF r1.k = "raise" THEN r1
                    ELSE GymPart(r1.v, frames, age.v, gender)

\* the whole call: the rows fetched, whether line 200 was reached, and the outcome
Summary(user_id) ==
    LET ids == FetchFrom(1, user_id)
        h == History(ids)
    IN IF h.k = "raise" THEN [rows |-> ids, loaded |-> FALSE, res |-> h]
       ELSE [rows |-> ids, loaded |-> TRUE,
             res |-> CohortPart(h.v, get_user_profile(user_id), StatsAfterCall.frames)]

-----------------------------------------------------------------------------
(* The request handlers *)

\* int(request.form[key]) if request.form.get(key) else None
OptionalInt(form, key) ==
    IF ~Truthy(Get(form, key)) THEN Ok(Null)
    ELSE LET p == PyInt(form[key].s)
         IN IF p.k = "ok" THEN Ok(IntV(p.v)) ELSE p

\* the parameter tuple of lines 1377-1386 and 1434-1444, as the row it stores
RowOfForm(form) ==
    IF "user_id" \notin DOMAIN form \/ "workout_date" \notin DOMAIN form
    THEN Raise("BadRequestKeyError")
    ELSE LET dur == OptionalInt(form, "total_duration_minutes")
             int == OptionalInt(form, "perceived_intensity")
         IN IF dur.k = "raise" THEN dur
            ELSE IF int.k = "raise" THEN int
            ELSE Ok([user_id |-> IntegerAffinity(form.user_id),
                     workout_date |-> form.workout_date,
                     total_duration_minutes |-> dur.v,
                     perceived_intensity |-> int.v])

\* return redirect("/")
Redirect == Ok("redirect")

unchangedCache == UNCHANGED <<files, EXTERNAL_STATS, DATAFRAMES, reads, threads, args, out>>

\* POST /workouts (main.py:1367-1390)
create_workout(form) ==
    /\ next_workout_id <= MaxWorkouts
    /\ LET row == RowOfForm(form)
       IN IF row.k = "raise"
          THEN /\ ret' = row
               /\ UNCHANGED <<workout_sessions, next_workout_id>>
          ELSE /\ workout_sessions' = Put(workout_sessions, next_workout_id, row.v)
               /\ next_workout_id' = next_workout_id + 1
               /\ ret' = Redirect
    /\ UNCHANGED user_profiles
    /\ unchangedCache

\* POST /workouts/<workout_id> (main.py:1423-1448)
update_workout(workout_id, form) ==
    /\ LET row == RowOfForm(form)
       IN IF row.k = "raise"
          THEN /\ ret' = row
               /\ UNCHANGED workout_sessions
          ELSE /\ workout_sessions' =
                     IF workout_id \in DOMAIN workout_sessions
                     THEN [workout_sessions EXCEPT ![workout_id] = row.v]
                     ELSE workout_sessions
               /\ ret' = Redirect
    /\ UNCHANGED <<next_workout_id, user_profiles>>
    /\ unchangedCache

\* POST /workouts/<workout_id>/delete (main.py:1451-1458)
delete_workout(workout_id) ==
    /\ workout_sessions' =
           [i \in DOMAIN workout_sessions \ {workout_id} |-> workout_sessions[i]]
    /\ ret' = Redirect
    /\ UNCHANGED <<next_workout_id, user_profiles>>
    /\ unchangedCache

\* POST /profile (main.py:1461-1475): the row of user 1 always exists
update_profile(form) ==
    /\ user_profiles' =
           IF 1 \in DOMAIN user_profiles
           THEN [user_profiles EXCEPT
                    ![1] = [age |-> IntegerAffinity(Get(form, "age")),
                            gender |-> Get(form, "gender")]]
           ELSE user_profiles
    /\ ret' = Redirect
    /\ UNCHANGED <<workout_sessions, next_workout_id>>
    /\ unchangedCache

\* the mutation: a summary that creates the profile row it does not find
compute_fitness_summary_creating(user_id) ==
    LET s == Summary(user_id)
    IN /\ ret' = [k |-> "summary", user_id |-> user_id, rows |-> s.rows, res |-> s.res]
       /\ EXTERNAL_STATS' = IF s.loaded THEN StatsAfterCall.stats ELSE EXTERNAL_STATS
       /\ DATAFRAMES' = IF s.loaded THEN StatsAfterCall.frames ELSE DATAFRAMES
       /\ reads' = IF s.loaded THEN StatsAfterCall.reads ELSE reads
       /\ user_profiles' = IF user_id \in DOMAIN user_profiles THEN user_profiles
                           ELSE (user_id :> SeedProfile) @@ user_profiles
       /\ UNCHANGED <<workout_sessions, next_workout_id, files, threads, args, out>>

\* a call of compute_fitness_summary(user_id) (main.py:159-233)
compute_fitness_summary(user_id) ==
    LET s == Summary(user_id)
    IN /\ ret' = [k |-> "summary", user_id |-> user_id, rows |-> s.rows, res |-> s.res]
       /\ EXTERNAL_STATS' = IF s.loaded THEN StatsAfterCall.stats ELSE EXTERNAL_STATS
       /\ DATAFRAMES' = IF s.loaded THEN StatsAfterCall.frames ELSE DATAFRAMES
       /\ reads' = IF s.loaded THEN StatsAfterCall.reads ELSE reads
       /\ UNCHANGED <<workout_sessions, next_workout_id, user_profiles, files,
                      threads, args, out>>

\* a call of compute_external_stats() from a route (main.py:1312, 1326, 1411)
compute_external_stats ==
    /\ ret' = [k |-> "stats", v |-> StatsAfterCall.stats, cached |-> StatsAfterCall.cached]
    /\ EXTERNAL_STATS' = StatsAfterCall.stats
    /\ DATAFRAMES' = StatsAfterCall.frames
    /\ reads' = StatsAfterCall.reads
    /\ UNCHANGED <<workout_sessions, next_workout_id, user_profiles, files,
                   threads, args, out>>

-----------------------------------------------------------------------------
(* The application: the state after init_db and the requests *)

Idle == [k |-> "idle"]

Threads == 1..MaxThreads
NoThreads == [t \in Threads |-> [pc |-> "idle"]]

Init ==
    /\ workout_sessions = EmptyDict
    /\ next_workout_id = 1
    /\ user_profiles = (1 :> SeedProfile)
    /\ files \in FileSystems
    /\ EXTERNAL_STATS = EmptyDict
    /\ DATAFRAMES = EmptyDict
    /\ reads = 0
    /\ threads = NoThreads
    /\ ret = Idle
    /\ args = Idle
    /\ out = Idle

Next ==
    \/ \E form \in WorkoutForms : create_workout(form)
    \/ \E id \in 1..MaxWorkouts, form \in EditForms : update_workout(id, form)
    \/ \E id \in 1..MaxWorkouts : delete_workout(id)
    \/ \E form \in ProfileForms : update_profile(form)
    \/ \E u \in UserIds : compute_fitness_summary(u)
    \/ compute_external_stats

Spec == Init /\ [][Next]_vars

-----------------------------------------------------------------------------
(* The pure helpers on their own: percentile_rank on every small sample and  *)
(* the score of line 186 on pairs of weekly volumes.                        *)

Cells == {N(10), N(20), Rat(27, 2), NaN, T3("a", "b", "c")}
Probes == {N(9), N(10), Rat(27, 2), N(20), N(25)}
Samples == UNION {[1..n -> Cells] : n \in 0..MaxLen}
Weeklies == {N(-210), N(0), Rat(189, 2), N(299), N(300), N(301), N(630)}

\* tables whose ages lie on and just outside the window ends of both ages, with
\* the spellings of the gender column; the metric numbers the rows
CohortAges == {22, 25}
CohortGenders == {T1("M"), T1("F"), T1("N")}
CohortCells ==
    << <<N(19), T1("M")>>, <<N(20), T1("M")>>, <<N(24), T1("m")>>,
       <<N(25), TextV(<<"M", "a", "l", "e">>)>>, <<N(23), TextV(<<"m", "a", "l", "e">>)>>,
       <<N(27), T1("M")>>, <<N(28), T1("M")>>, <<N(22), NaN>>, <<N(22), T1("F")>>,
       <<N(23), TextV(<<"F", "e", "m", "a", "l", "e">>)>>, <<N(27), T1("f")>>,
       <<N(19), T1("F")>>, <<N(25), T1("F")>> >>
CohortTable(ds) ==
    IF ds = "hf365"
    THEN [columns |-> <<"age", "gender", "exercise_minutes">>,
          rows |-> [i \in 1..Len(CohortCells) |->
                       Hf365Row(CohortCells[i][1], CohortCells[i][2], N(i))]]
    ELSE [columns |-> <<"Age", "Gender", HOURS>>,
          rows |-> [i \in 1..Len(CohortCells) |->
                       GymRow(CohortCells[i][1], CohortCells[i][2], N(i))]]
AgeColumn(ds) == IF ds = "hf365" THEN "age" ELSE "Age"
GenderColumn(ds) == IF ds = "hf365" THEN "gender" ELSE "Gender"

\* the history part of a summary (lines 177-198) for a total, a number of
\* records and a span of days
Hist(total, n, span) ==
    [has_data |-> TRUE,
     total_minutes_30d |-> N(total),
     avg_duration |-> Rat(total, n),
     weekly_minutes |-> Rat(total * 7, span),
     current_score |-> Score(Rat(total * 7, span)),
     projected_score |-> Projected(Score(Rat(total * 7, span)))]

\* one record of 0 minutes; 30 and 60 minutes nine days apart; one of 30 minutes
PartHistories == {Hist(0, 1, 1), Hist(90, 2, 10), Hist(30, 1, 1)}
PartAges == {0, 22}
PartGenders == {T1("M"), T1("F"), T1("X")}

\* DATAFRAMES[key] for a file that was read (line 110)
Frame(file) == [columns |-> file.columns, rows |-> file.rows]

\* a table that lacks one column
WithoutColumn(df, col) ==
    [columns |-> SelectSeq(df.columns, LAMBDA c : c # col),
     rows |-> [i \in 1..Len(df.rows) |->
                  [c \in DOMAIN df.rows[i] \ {col} |-> df.rows[i][c]]]]

\* a table whose rows are all far from the ages of the profiles
ElderlyHf365 ==
    [columns |-> <<"age", "gender", "exercise_minutes">>,
     rows |-> << Hf365Row(N(70), T1("M"), N(15)), Hf365Row(N(71), T1("F"), N(25)) >>]

PartFrames ==
    { ("hf365" :> Frame(Hf365Table)) @@ ("gym" :> Frame(GymTable)),
      ("hf365" :> WithoutColumn(Frame(Hf365Table), "exercise_minutes"))
          @@ ("gym" :> Frame(GymTable)),
      ("hf365" :> Frame(Hf365Table)) @@ ("gym" :> WithoutColumn(Frame(GymTable), HOURS)),
      ("gym" :> Frame(GymTable)),
      ("hf365" :> Frame(Hf365Table)),
      ("hf365" :> ElderlyHf365) @@ ("gym" :> Frame(GymTable)) }

PartArgs ==
    {[fn |-> "cohort_part", result |-> r, frames |-> f,
      profile |-> [age |-> IntV(a), gender |-> g]] :
        r \in PartHistories, a \in PartAges, g \in PartGenders, f \in PartFrames}

\* Jinja's test of a value of the summary: a missing key, None and 0 are false
Shown(fitness_summary, key) ==
    IF key \notin DOMAIN fitness_summary THEN FALSE
    ELSE Truthy(fitness_summary[key])

\* lines 715-753 of the template: the lines of the percentile card
BASE_TEMPLATE(fitness_summary) ==
    IF ~fitness_summary["has_data"] THEN {"no_data"}
    ELSE (IF Shown(fitness_summary, "hf365_percentile") THEN {"hf365_line"} ELSE {})
         \cup (IF Shown(fitness_summary, "gym_percentile") THEN {"gym_line"} ELSE {})
         \cup (IF ~Shown(fitness_summary, "hf365_percentile")
                  /\ ~Shown(fitness_summary, "gym_percentile")
               THEN {"placeholder"} ELSE {})

\* the summaries the analytics view is rendered with
RenderArgs ==
    {[fn |-> "render", fitness_summary |-> [has_data |-> FALSE]]}
    \cup {[fn |-> "render", fitness_summary |-> CohortPart(a.result, a.profile, a.frames).v] :
             a \in {x \in PartArgs : CohortPart(x.result, x.profile, x.frames).k = "ok"}}

Pending == [k |-> "pending"]

InitPure ==
    /\ workout_sessions = EmptyDict
    /\ next_workout_id = 1
    /\ user_profiles = (1 :> SeedProfile)
    /\ files = [gym |-> Absent, hf365 |-> Absent, health |-> Absent]
    /\ EXTERNAL_STATS = EmptyDict
    /\ DATAFRAMES = EmptyDict
    /\ reads = 0
    /\ threads = NoThreads
    /\ ret = Idle
    /\ args \in {[fn |-> "percentile_rank", series |-> s, value |-> v] :
                    s \in Samples, v \in Probes}
            \cup {[fn |-> "score", w1 |-> a, w2 |-> b] : a \in Weeklies, b \in Weeklies}
            \cup {[fn |-> "cohort", ds |-> ds, age |-> a, gender |-> g] :
                    ds \in {"hf365", "gym"}, a \in CohortAges, g \in CohortGenders}
            \cup PartArgs
            \cup RenderArgs
    /\ out = Pending

call_percentile_rank ==
    /\ args.fn = "percentile_rank"
    /\ out = Pending
    /\ out' = percentile_rank(args.series, args.value)
    /\ UNCHANGED <<appVars, args>>

call_score ==
    /\ args.fn = "score"
    /\ out = Pending
    /\ out' = Ok([s1 |-> Score(args.w1), s2 |-> Score(args.w2)])
    /\ UNCHANGED <<appVars, args>>

\* the cohort selection of lines 211-214 (hf365) and 224-227 (gym)
call_cohort ==
    /\ args.fn = "cohort"
    /\ out = Pending
    /\ out' = Cohort(CohortTable(args.ds), AgeColumn(args.ds), GenderColumn(args.ds),
                     args.age, args.gender)
    /\ UNCHANGED <<appVars, args>>

\* lines 202-233 on a history, a profile row and the loaded dataframes
call_cohort_part ==
    /\ args.fn = "cohort_part"
    /\ out = Pending
    /\ out' = CohortPart(args.result, args.profile, args.frames)
    /\ UNCHANGED <<appVars, args>>

\* the percentile card of the analytics view (line 1357 passes the summary)
call_render ==
    /\ args.fn = "render"
    /\ out = Pending
    /\ out' = Ok(BASE_TEMPLATE(args.fitness_summary))
    /\ UNCHANGED <<appVars, args>>

NextPure ==
    call_percentile_rank \/ call_score \/ call_cohort \/ call_cohort_part \/ call_render

SpecPure == InitPure /\ [][NextPure]_vars

-----------------------------------------------------------------------------
(* Properties of percentile_rank and of the score, under SpecPure *)

RankCalled == args.fn = "percentile_rank" /\ out # Pending
NumericAt(series) == {i \in 1..Len(series) : series[i].k = "num"}
AtOrBelow(series, value) ==
    {i \in NumericAt(series) : series[i].n * value.d <= value.n * series[i].d}
NoText(series) == \A i \in 1..Len(series) : series[i].k # "text"

\* C1: for a sample of numbers and missing entries with at least one number,
\* percentile_rank returns 100 * (numbers <= probe) / (numbers): entries equal
\* to the probe count, and nothing is interpolated.
C1_PercentileIsInclusiveFraction ==
    (RankCalled /\ NoText(args.series) /\ NumericAt(args.series) # {}) =>
        /\ out.k = "ok"
        /\ out.v.k = "num"
        /\ out.v.n * Cardinality(NumericAt(args.series))
             = 100 * Cardinality(AtOrBelow(args.series, args.value)) * out.v.d

\* a sample with a missing entry, a tie with the probe and an entry above it
C1_Witness ==
    /\ RankCalled
    /\ args.series = <<NaN, N(10), N(20)>>
    /\ args.value = N(10)
    /\ out = Ok(N(50))

\* C2: percentile_rank returns None, never 0 and never an exception, when the
\* sample is empty or every entry is missing or not a number.
C2_UndefinedWithoutRaising ==
    (RankCalled /\ NumericAt(args.series) = {}) => out = Ok(Null)

ScoreCalled == args.fn = "score" /\ out # Pending

\* C8: the score is monotone non-decreasing in the weekly volume, and it is 10
\* exactly when the weekly volume is at least 300.
C8_ScoreMonotoneAndCapped ==
    ScoreCalled =>
        /\ RLt(args.w1, args.w2) => RLe(out.v.s1, out.v.s2)
        /\ (out.v.s1 = N(10)) <=> (args.w1.n >= 300 * args.w1.d)
        /\ (out.v.s2 = N(10)) <=> (args.w2.n >= 300 * args.w2.d)

\* one volume below the cap and one above it
C8_Witness ==
    /\ ScoreCalled
    /\ args.w1 = Rat(189, 2) /\ args.w2 = N(301)
    /\ out.v.s1 = Rat(63, 20) /\ out.v.s2 = N(10)

-----------------------------------------------------------------------------
(* Properties of compute_fitness_summary, under Spec.  ret holds the latest  *)
(* call, so the tables are those the call read.                             *)

SummaryCalled == ret.k = "summary"
SummaryReturned == SummaryCalled /\ ret.res.k = "ok"
HasData == SummaryReturned /\ ret.res.v.has_data
Fetched == {ret.rows[i] : i \in 1..Len(ret.rows)}

InUnit(x, hi) == 0 <= x.n /\ x.n <= hi * x.d

\* C3: every returned summary with has_data has both scores in [0, 10].
C3_ScoresWithinZeroAndTen ==
    HasData => /\ InUnit(ret.res.v.current_score, 10)
               /\ InUnit(ret.res.v.projected_score, 10)

\* the record has a calendar date within the 30 days up to and including today
InTrailingWindow(row) ==
    /\ row.workout_date.k = "iso"
    /\ Today - 30 <= row.workout_date.day
    /\ row.workout_date.day <= Today

OwnRecords(user_id) ==
    {id \in DOMAIN workout_sessions : workout_sessions[id].user_id = IntV(user_id)}

\* C4: a record of the user with a calendar date is aggregated if and only if
\* its duration is not missing and its date d has today - 30 <= d <= today.
C4_AggregatesExactlyTheTrailingWindow ==
    SummaryCalled =>
        \A id \in OwnRecords(ret.user_id) :
            workout_sessions[id].workout_date.k = "iso" =>
                (id \in Fetched <=>
                    /\ workout_sessions[id].total_duration_minutes # Null
                    /\ InTrailingWindow(workout_sessions[id]))

\* C5: a summary returned when the user has no record with a duration in the
\* trailing 30-day window is exactly has_data = false, with no other field.
C5_NoHistoryMeansNoData ==
    (/\ SummaryReturned
     /\ \A id \in OwnRecords(ret.user_id) :
            \/ workout_sessions[id].total_duration_minutes = Null
            \/ ~InTrailingWindow(workout_sessions[id]))
        => ret.res.v = [has_data |-> FALSE]

RECURSIVE MinutesOf(_)
MinutesOf(ids) ==
    IF ids = {} THEN 0
    ELSE LET id == CHOOSE x \in ids : TRUE
         IN workout_sessions[id].total_duration_minutes.v + MinutesOf(ids \ {id})

DaysOf(ids) == {workout_sessions[id].workout_date.day : id \in ids}
DaySpan(ids) ==
    LET days == DaysOf(ids)
        first == CHOOSE d \in days : \A e \in days : d <= e
        last == CHOOSE d \in days : \A e \in days : e <= d
    IN IF last - first + 1 >= 1 THEN last - first + 1 ELSE 1

\* C6: over the records it aggregates (at least one), the summary has
\* total = sum of the durations, avg_duration = total / count,
\* weekly_minutes = total * 7 / span_days with
\* span_days = max(1, latest date - earliest date + 1); durations 30, 45, 60
\* spanning 10 days give 135, 45, 94.5, 3.15 and 4.15, and records on a single
\* date give weekly_minutes = 7 * total.
C6_Aggregates ==
    HasData =>
        LET r == ret.res.v
            total == MinutesOf(Fetched)
            span == DaySpan(Fetched)
        IN /\ Fetched # {}
           /\ r.total_minutes_30d = N(total)
           /\ r.avg_duration.n * Cardinality(Fetched) = total * r.avg_duration.d
           /\ r.weekly_minutes.n * span = total * 7 * r.weekly_minutes.d
           /\ Cardinality(DaysOf(Fetched)) = 1 => r.weekly_minutes = N(7 * total)
           /\ (/\ Cardinality(Fetched) = 3
               /\ {workout_sessions[id].total_duration_minutes.v : id \in Fetched}
                    = {30, 45, 60}
               /\ span = 10)
                => /\ r.total_minutes_30d = N(135)
                   /\ r.avg_duration = N(45)
                   /\ r.weekly_minutes = Rat(189, 2)
                   /\ r.current_score = Rat(315, 100)
                   /\ r.projected_score = Rat(415, 100)

\* the three workouts of the example, spanning 10 days
C6_Witness ==
    /\ HasData
    /\ Cardinality(Fetched) = 3
    /\ {workout_sessions[id].total_duration_minutes.v : id \in Fetched} = {30, 45, 60}
    /\ DaySpan(Fetched) = 10
    /\ ret.res.v.weekly_minutes = Rat(189, 2)

\* C7: in every returned summary with has_data,
\* projected_score = min(10, current_score + 1).
C7_ProjectedIsCappedBump ==
    HasData =>
        LET c == ret.res.v.current_score
            p == ret.res.v.projected_score
        IN IF c.n + c.d >= 10 * c.d
           THEN p = N(10)
           ELSE p.n * c.d = (c.n + c.d) * p.d

\* a summary whose bump is cut by the cap
C7_Witness ==
    /\ HasData
    /\ ret.res.v.current_score = N(10)
    /\ ret.res.v.projected_score = N(10)

\* C9: with no profile row, or with the age or the gender missing, the call
\* returns the training metrics of the history, without cohort label and
\* without percentiles, and does not raise.
C9_AbsentProfileDoesNotRaise ==
    (/\ SummaryCalled
     /\ \/ get_user_profile(ret.user_id) = Null
        \/ get_user_profile(ret.user_id).age = Null
        \/ get_user_profile(ret.user_id).gender = Null)
        => /\ ret.res.k = "ok"
           /\ DOMAIN ret.res.v \cap {"cohort_label", "hf365_percentile", "gym_percentile"} = {}

\* C10: when a fetched record has a date text that cannot be parsed, the call
\* still returns a summary and does not raise.
C10_UnparsableDateIsSkipped ==
    (/\ SummaryCalled
     /\ \E id \in Fetched : workout_sessions[id].workout_date.k # "iso")
        => ret.res.k = "ok"

-----------------------------------------------------------------------------
(* Properties of the cohort selection, under SpecPure *)

CohortCalled == args.fn = "cohort" /\ out # Pending
CohortRows == CohortTable(args.ds).rows
Selected(row) == \E j \in 1..Len(out.v) : out.v[j] = row
AgeOf(row) == row[AgeColumn(args.ds)]
GenderOf(row) == row[GenderColumn(args.ds)]

\* the first character of the row's gender text, upper-cased, is the code
FirstLetterIs(cell, code) ==
    /\ cell.k = "text"
    /\ cell.s # <<>>
    /\ \/ <<cell.s[1]>> = code.s
       \/ \E i \in 1..26 : cell.s[1] = LowerChars[i] /\ <<UpperChars[i]>> = code.s

\* C11: for both datasets, every row of matching gender aged exactly age - 2 or
\* age + 2 is in the cohort and every row aged age - 3 or age + 3 is not.
C11_ClosedAgeWindow ==
    CohortCalled =>
        /\ out.k = "ok"
        /\ \A i \in 1..Len(CohortRows) :
              LET row == CohortRows[i]
              IN /\ (/\ FirstLetterIs(GenderOf(row), args.gender)
                     /\ AgeOf(row) \in {N(args.age - 2), N(args.age + 2)})
                        => Selected(row)
                 /\ AgeOf(row) \in {N(args.age - 3), N(args.age + 3)} => ~Selected(row)

\* age 22, code M, hf365: the rows aged 20 and 24 are in, those aged 19 and 25 out
C11_Witness ==
    /\ CohortCalled
    /\ args.ds = "hf365" /\ args.age = 22 /\ args.gender = T1("M")
    /\ out.k = "ok"
    /\ Selected(CohortRows[2]) /\ Selected(CohortRows[3])
    /\ ~Selected(CohortRows[1]) /\ ~Selected(CohortRows[4])

\* C12: a row in the age window is in the cohort if and only if the first
\* character of its gender field, upper-cased, is the user's gender code; a row
\* whose gender is missing is not.
C12_GenderByFirstLetter ==
    CohortCalled =>
        /\ out.k = "ok"
        /\ \A i \in 1..Len(CohortRows) :
              LET row == CohortRows[i]
              IN (/\ RLe(N(args.age - 2), AgeOf(row))
                  /\ RLe(AgeOf(row), N(args.age + 2)))
                    => (Selected(row) <=> FirstLetterIs(GenderOf(row), args.gender))

\* C20: for a non-empty sample of numbers, percentile_rank lies in [0, 100].
C20_PercentileWithinRange ==
    (/\ RankCalled
     /\ args.series # <<>>
     /\ \A i \in 1..Len(args.series) : args.series[i].k = "num")
        => /\ out.k = "ok"
           /\ out.v.k = "num"
           /\ 0 <= out.v.n
           /\ out.v.n <= 100 * out.v.d

\* a sample wholly at or below the probe, at the upper end of the range
C20_Witness ==
    /\ RankCalled
    /\ args.series = <<N(10), N(20), N(20)>>
    /\ args.value = N(20)
    /\ out = Ok(N(100))


-----------------------------------------------------------------------------
(* The dataset cache *)

Loaded == DOMAIN EXTERNAL_STATS # {}

DatasetKeys == {datasets[i].key : i \in 1..Len(datasets)}
LabelOf(key) == (CHOOSE ds \in {datasets[i] : i \in 1..Len(datasets)} : ds.key = key).label

\* C13: once EXTERNAL_STATS is non-empty, every later call of
\* compute_external_stats (from a route or from compute_fitness_summary)
\* returns the cached mapping, leaves EXTERNAL_STATS and DATAFRAMES as they
\* are and calls pd.read_csv no more.
C13_CacheIsMemoized ==
    [][Loaded => /\ EXTERNAL_STATS' = EXTERNAL_STATS
                 /\ DATAFRAMES' = DATAFRAMES
                 /\ reads' = reads
                 /\ (ret'.k = "stats" => ret'.v = EXTERNAL_STATS)]_vars

\* a route asked for the statistics again after three files had been read and
\* a workout had been stored, and got the cache
C13_Witness ==
    /\ ret.k = "stats" /\ ret.cached
    /\ ret.v = EXTERNAL_STATS
    /\ reads = 3
    /\ DOMAIN workout_sessions # {}

PercentileKey(key) == IF key = "hf365" THEN "hf365_percentile" ELSE "gym_percentile"
StandIn(key) == IF key = "hf365" THEN Hf365Table ELSE GymTable
Without(d, key) == [x \in DOMAIN d \ {key} |-> d[x]]

\* C14: a dataset whose file does not exist has the entry {name, exists: False}
\* and nothing else, has no dataframe in DATAFRAMES, and a summary computed
\* without it is the summary computed with it minus that dataset's percentile
\* (an exception that does not come from the dataset is the same exception).
C14_AbsentDatasetIsSkipped ==
    /\ Loaded => \A key \in DatasetKeys : files[key] = Absent =>
          /\ EXTERNAL_STATS[key] = [name |-> LabelOf(key), exists |-> FALSE]
          /\ key \notin DOMAIN DATAFRAMES
    /\ \A key \in {"hf365", "gym"} :
          (SummaryCalled /\ files[key] = Absent /\ History(ret.rows).k = "ok") =>
             LET other == CohortPart(History(ret.rows).v, get_user_profile(ret.user_id),
                                     Put(DATAFRAMES, key, StandIn(key)))
             IN /\ ret.res.k = "raise" \/ PercentileKey(key) \notin DOMAIN ret.res.v
                /\ IF other.k = "raise" THEN ret.res = other
                   ELSE ret.res = Ok(Without(other.v, PercentileKey(key)))

\* hf365 is absent, the summary has the cohort label and the gym percentile
C14_Witness ==
    /\ SummaryReturned
    /\ files["hf365"] = Absent
    /\ EXTERNAL_STATS["hf365"] = [name |-> LabelOf("hf365"), exists |-> FALSE]
    /\ DOMAIN DATAFRAMES = {"gym"}
    /\ "cohort_label" \in DOMAIN ret.res.v
    /\ "gym_percentile" \in DOMAIN ret.res.v
    /\ ret.res.v["gym_percentile"].k = "num"
    /\ "hf365_percentile" \notin DOMAIN ret.res.v

\* C15: an entry that carries an error describes a dataset that is not
\* present: it has exists = False.
C15_FailedLoadIsNotPresent ==
    Loaded => \A key \in DatasetKeys :
        "error" \in DOMAIN EXTERNAL_STATS[key] => ~EXTERNAL_STATS[key]["exists"]


-----------------------------------------------------------------------------
(* The cohort percentiles of a summary *)

Profile == get_user_profile(ret.user_id)
HasAgeAndGender ==
    /\ Profile # Null
    /\ Profile.age.k = "int"
    /\ Profile.gender.k = "text" /\ Profile.gender.s # <<>>
HistoryExists == Fetched # {}

CohortOf(key) ==
    IF key = "hf365"
    THEN Cohort(DATAFRAMES[key], "age", "gender", Profile.age.v, Profile.gender)
    ELSE Cohort(DATAFRAMES[key], "Age", "Gender", Profile.age.v, Profile.gender)

\* the cohort's metric, in the unit the user's value is compared in
MetricOf(key) ==
    IF key = "hf365" THEN Column(CohortOf(key).v, "exercise_minutes")
    ELSE LET hours == Column(CohortOf(key).v, HOURS)
         IN [i \in 1..Len(hours) |-> Times60(hours[i])]

UserMetric(key) ==
    IF key = "hf365" THEN RDivInt(ret.res.v["weekly_minutes"], 7)
    ELSE ret.res.v["avg_duration"]

\* the dataset is loaded, the cohort is not empty and its metric has a number
Comparable(key) ==
    /\ key \in DOMAIN DATAFRAMES
    /\ CohortOf(key).k = "ok"
    /\ CohortOf(key).v # <<>>
    /\ NoText(MetricOf(key))
    /\ NumericAt(MetricOf(key)) # {}

IsFraction(p, key) ==
    /\ p.k = "num"
    /\ p.n * Cardinality(NumericAt(MetricOf(key)))
         = 100 * Cardinality(AtOrBelow(MetricOf(key), UserMetric(key))) * p.d

\* a percentile that a summary reports as a number is the inclusive fraction of
\* the cohort's metric at or below the user's value
PercentileWhenReported ==
    SummaryReturned => \A key \in {"hf365", "gym"} :
        (/\ PercentileKey(key) \in DOMAIN ret.res.v
         /\ ret.res.v[PercentileKey(key)].k = "num") =>
            /\ HasAgeAndGender /\ HistoryExists /\ Comparable(key)
            /\ IsFraction(ret.res.v[PercentileKey(key)], key)

\* C17: with an age and a gender in the profile, records in the window and a
\* non-empty hf365 cohort with a numeric exercise_minutes, the summary's
\* hf365_percentile is the percentage of the cohort's non-missing
\* exercise_minutes at or below weekly_minutes / 7.
C17_Hf365PercentileOfDailyMinutes ==
    (SummaryReturned /\ HasAgeAndGender /\ HistoryExists /\ Comparable("hf365")) =>
        /\ "hf365_percentile" \in DOMAIN ret.res.v
        /\ IsFraction(ret.res.v["hf365_percentile"], "hf365")

\* C18: under the same conditions for the gym cohort, the summary's
\* gym_percentile is the percentage of the cohort's non-missing session
\* durations, in minutes (hours * 60), at or below avg_duration.
C18_GymPercentileOfSessionMinutes ==
    (SummaryReturned /\ HasAgeAndGender /\ HistoryExists /\ Comparable("gym")) =>
        /\ "gym_percentile" \in DOMAIN ret.res.v
        /\ IsFraction(ret.res.v["gym_percentile"], "gym")

\* C19: a percentile field that is present in a summary is a number in
\* [0, 100], never the undefined value, and it is present only with a history
\* and a non-empty cohort.
C19_PresentPercentileIsANumber ==
    SummaryReturned => \A key \in {"hf365", "gym"} :
        PercentileKey(key) \in DOMAIN ret.res.v =>
            /\ ret.res.v[PercentileKey(key)].k = "num"
            /\ InUnit(ret.res.v[PercentileKey(key)], 100)
            /\ HistoryExists
            /\ CohortOf(key).v # <<>>


-----------------------------------------------------------------------------
(* compute_external_stats step by step, entered by several threads at once
   (Flask serves requests on threads; the function takes no lock) *)

\* the mutation: the entries are written to the global mapping as they are made
StatsSharedWhileLoading(global, local) == local

\* lines 101 and 132: the entries go to the local dict stats; the global
\* mapping is what it was until line 134
StatsVisibleWhileLoading(global, local) == global

\* lines 104-132 for the i-th dataset of each file system, starting from an
\* empty dataframe cache (the iteration reads nothing but its own file)
Loads ==
    [fs \in FileSystems |->
        [i \in 1..Len(datasets) |->
            LoadDataset(datasets[i], fs[datasets[i].key], EmptyDict)]]

\* the thread's position after the i-th dataset is done
Advance(i, stats) ==
    IF i < Len(datasets) THEN [pc |-> "read", i |-> i + 1, stats |-> stats]
    ELSE [pc |-> "publish", stats |-> stats]

\* lines 89-101: the test of the cache
enter(t) ==
    /\ threads[t].pc = "start"
    /\ threads' = [threads EXCEPT ![t] =
            IF DOMAIN EXTERNAL_STATS # {} THEN [pc |-> "done", ret |-> EXTERNAL_STATS]
            ELSE [pc |-> "read", i |-> 1, stats |-> EmptyDict]]
    /\ UNCHANGED <<workout_sessions, next_workout_id, user_profiles, files,
                   EXTERNAL_STATS, DATAFRAMES, reads, ret, args, out>>

\* lines 103-109: os.path.exists and pd.read_csv for the i-th dataset; an
\* absent or unreadable file ends the iteration
read(t) ==
    /\ threads[t].pc = "read"
    /\ LET ds == datasets[threads[t].i]
           l == Loads[files][threads[t].i]
           stats == Put(threads[t].stats, ds.key, l.entry)
       IN /\ reads' = reads + l.read
          /\ IF files[ds.key].k = "csv"
             THEN /\ threads' = [threads EXCEPT ![t].pc = "store"]
                  /\ UNCHANGED EXTERNAL_STATS
             ELSE /\ threads' = [threads EXCEPT ![t] = Advance(threads[t].i, stats)]
                  /\ EXTERNAL_STATS' = StatsVisibleWhileLoading(EXTERNAL_STATS, stats)
    /\ UNCHANGED <<workout_sessions, next_workout_id, user_profiles, files,
                   DATAFRAMES, ret, args, out>>

\* lines 110-132: DATAFRAMES[key] = df, the counts, the means, stats[key] = entry
store(t) ==
    /\ threads[t].pc = "store"
    /\ LET ds == datasets[threads[t].i]
           l == Loads[files][threads[t].i]
           stats == Put(threads[t].stats, ds.key, l.entry)
       IN /\ DATAFRAMES' = Put(DATAFRAMES, ds.key, l.frames[ds.key])
          /\ threads' = [threads EXCEPT ![t] = Advance(threads[t].i, stats)]
          /\ EXTERNAL_STATS' = StatsVisibleWhileLoading(EXTERNAL_STATS, stats)
    /\ UNCHANGED <<workout_sessions, next_workout_id, user_profiles, files,
                   reads, ret, args, out>>

\* lines 134-135: EXTERNAL_STATS = stats; return stats
publish(t) ==
    /\ threads[t].pc = "publish"
    /\ EXTERNAL_STATS' = threads[t].stats
    /\ threads' = [threads EXCEPT ![t] = [pc |-> "done", ret |-> threads[t].stats]]
    /\ UNCHANGED <<workout_sessions, next_workout_id, user_profiles, files,
                   DATAFRAMES, reads, ret, args, out>>

step(t) == enter(t) \/ read(t) \/ store(t) \/ publish(t)

InitLoad ==
    /\ workout_sessions = EmptyDict
    /\ next_workout_id = 1
    /\ user_profiles = (1 :> SeedProfile)
    /\ files \in FileSystems
    /\ EXTERNAL_STATS = EmptyDict
    /\ DATAFRAMES = EmptyDict
    /\ reads = 0
    /\ threads = [t \in Threads |-> [pc |-> "start"]]
    /\ ret = Idle
    /\ args = Idle
    /\ out = Idle

NextLoad == \E t \in Threads : step(t)

\* every thread that has entered the function keeps running: none of its
\* statements waits for another thread
SpecLoad == InitLoad /\ [][NextLoad]_vars /\ \A t \in Threads : WF_vars(step(t))

\* what one call alone, on empty caches, leaves behind
SequentialLoad == LoadFrom(1, EmptyDict, EmptyDict, 0)

AllDone == \A t \in Threads : threads[t].pc = "done"

\* C16: when several threads make the first call at once, every call returns
\* the mapping a single sequential load returns, the caches never hold
\* anything else, every call ends, and in the end EXTERNAL_STATS and
\* DATAFRAMES are those of a sequential load; only the number of reads may
\* be larger.
C16_RacingLoadsAgree ==
    /\ [](\A t \in Threads :
            threads[t].pc = "done" => threads[t].ret = SequentialLoad.stats)
    /\ [](Loaded => EXTERNAL_STATS = SequentialLoad.stats)
    /\ [](\A key \in DOMAIN DATAFRAMES :
            /\ key \in DOMAIN SequentialLoad.frames
            /\ DATAFRAMES[key] = SequentialLoad.frames[key])
    /\ <>[](/\ AllDone
            /\ EXTERNAL_STATS = SequentialLoad.stats
            /\ DATAFRAMES = SequentialLoad.frames
            /\ reads >= SequentialLoad.reads)

\* both threads found the cache empty and each read all three files
C16_Witness ==
    /\ AllDone
    /\ SequentialLoad.reads = 3
    /\ reads = MaxThreads * SequentialLoad.reads
    /\ EXTERNAL_STATS = SequentialLoad.stats


-----------------------------------------------------------------------------
(* The ends of the percentile scale, under SpecPure *)

AllNumeric(series) == \A i \in 1..Len(series) : series[i].k = "num"
IsMaxOf(value, series) ==
    /\ \E i \in 1..Len(series) : series[i] = value
    /\ \A i \in 1..Len(series) : RLe(series[i], value)
BelowAll(value, series) == \A i \in 1..Len(series) : RLt(value, series[i])

\* C21: for a non-empty sample of numbers, percentile_rank is 100 at the
\* sample's maximum and 0 at a probe strictly below every element.
C21_EndsOfTheScale ==
    (RankCalled /\ args.series # <<>> /\ AllNumeric(args.series)) =>
        /\ IsMaxOf(args.value, args.series) => out = Ok(N(100))
        /\ BelowAll(args.value, args.series) => out = Ok(N(0))

\* the probe is the maximum of a sample of three different numbers
C21_Witness ==
    /\ RankCalled
    /\ args.series = <<N(10), N(20), Rat(27, 2)>>
    /\ args.value = N(20)
    /\ out = Ok(N(100))

\* the probe 9 lies below the whole sample and ranks 0
C21_BelowWitness ==
    /\ RankCalled
    /\ args.series = <<N(10), N(20), Rat(27, 2)>>
    /\ args.value = N(9)
    /\ out = Ok(N(0))


-----------------------------------------------------------------------------
(* The profile part of the summary and the percentile card, under SpecPure *)

PartCalled == args.fn = "cohort_part" /\ out # Pending

\* the word the label is to carry for a gender code
GenderWord(gender) ==
    IF gender = T1("M") THEN "males"
    ELSE IF gender = T1("F") THEN "females" ELSE "users"

\* C22: the cohort label names the window age-2 to age+2 and the word males
\* for the code M, females for F and users for every other code.
C22_CohortLabelWords ==
    (PartCalled /\ out.k = "ok" /\ "cohort_label" \in DOMAIN out.v) =>
        out.v["cohort_label"] = [lo |-> args.profile.age.v - 2,
                                 hi |-> args.profile.age.v + 2,
                                 word |-> GenderWord(args.profile.gender)]

PartCohort(key) ==
    IF key = "hf365"
    THEN Cohort(args.frames[key], "age", "gender", args.profile.age.v, args.profile.gender)
    ELSE Cohort(args.frames[key], "Age", "Gender", args.profile.age.v, args.profile.gender)

MetricColumn(key) == IF key = "hf365" THEN "exercise_minutes" ELSE HOURS

\* the dataset is loaded and the cohort of the profile is not empty
PartCohortNonEmpty(key) ==
    /\ key \in DOMAIN args.frames
    /\ PartCohort(key).k = "ok"
    /\ PartCohort(key).v # <<>>

\* C25: with an age and a gender in the profile and a history in the window,
\* the summary has a cohort label and a percentile is attempted for every
\* non-empty cohort, also when the weekly volume is 0 and when the age is 0
\* (a call that raises for a missing metric column is left to C26).
C25_LabelWheneverProfileAndHistory ==
    (PartCalled /\ args.result["has_data"] /\ out.k = "ok") =>
        /\ "cohort_label" \in DOMAIN out.v
        /\ \A key \in {"hf365", "gym"} :
              (PartCohortNonEmpty(key) /\ HasColumn(args.frames[key], MetricColumn(key)))
                  => PercentileKey(key) \in DOMAIN out.v

\* the label is built: age, gender and weekly volume pass the test of line 205
LabelBuilt ==
    /\ Truthy(args.profile.age)
    /\ Truthy(args.profile.gender)
    /\ Truthy(args.result["weekly_minutes"])

\* C26: when the label is built, the call returns normally with the label,
\* whatever one dataset lacks (the file, a cohort or its metric column), and
\* with the percentile of every dataset that has a non-empty cohort and its
\* metric column.
C26_PercentilesIndependentlyOptional ==
    (PartCalled /\ LabelBuilt) =>
        /\ out.k = "ok"
        /\ "cohort_label" \in DOMAIN out.v
        /\ \A key \in {"hf365", "gym"} :
              (PartCohortNonEmpty(key) /\ HasColumn(args.frames[key], MetricColumn(key)))
                  => PercentileKey(key) \in DOMAIN out.v

RenderCalled == args.fn = "render" /\ out # Pending
Defined(fitness_summary, key) ==
    key \in DOMAIN fitness_summary /\ fitness_summary[key].k = "num"

\* C28: in the analytics view of a summary with data, a percentile that is a
\* number, 0 included, has its line displayed, and the placeholder is shown
\* exactly when neither percentile is a number.
C28_ZeroPercentileIsDisplayed ==
    (RenderCalled /\ args.fitness_summary["has_data"]) =>
        /\ Defined(args.fitness_summary, "hf365_percentile") => "hf365_line" \in out.v
        /\ Defined(args.fitness_summary, "gym_percentile") => "gym_line" \in out.v
        /\ "placeholder" \in out.v <=>
              (/\ ~Defined(args.fitness_summary, "hf365_percentile")
               /\ ~Defined(args.fitness_summary, "gym_percentile"))


-----------------------------------------------------------------------------
(* The summary's fields, the stored records and the frame of a summary call,
   under Spec *)

\* every key compute_fitness_summary assigns (lines 189-231)
SummaryFields ==
    {"has_data", "total_minutes_30d", "avg_duration", "weekly_minutes",
     "current_score", "projected_score", "cohort_label",
     "hf365_percentile", "gym_percentile"}

\* C23: a summary that reports a percentile also has a field that holds the
\* number of rows of the cohort the percentile was computed against.
C23_CohortSizeRecorded ==
    SummaryReturned => \A key \in {"hf365", "gym"} :
        PercentileKey(key) \in DOMAIN ret.res.v =>
            \E f \in DOMAIN ret.res.v \ SummaryFields :
                ret.res.v[f] = N(Len(CohortOf(key).v))

\* C24: every stored workout record has a calendar date and an owning user
\* id, and its duration is missing or a non-negative integer.
C24_StoredRecordsWellFormed ==
    \A id \in DOMAIN workout_sessions :
        /\ workout_sessions[id].workout_date.k = "iso"
        /\ workout_sessions[id].user_id.k = "int"
        /\ \/ workout_sessions[id].total_duration_minutes.k = "null"
           \/ /\ workout_sessions[id].total_duration_minutes.k = "int"
              /\ workout_sessions[id].total_duration_minutes.v >= 0

\* C27: a call of compute_fitness_summary leaves the workout records, the
\* profiles and the files as they are, changes the dataset cache only from
\* empty to loaded, and returns what the call right before it returned for
\* the same user.
C27_SummaryIsReadOnly ==
    [][ret'.k = "summary" =>
          /\ workout_sessions' = workout_sessions
          /\ next_workout_id' = next_workout_id
          /\ user_profiles' = user_profiles
          /\ files' = files
          /\ \/ EXTERNAL_STATS' = EXTERNAL_STATS /\ DATAFRAMES' = DATAFRAMES
             \/ ~Loaded /\ Loaded'
          /\ (ret.k = "summary" /\ ret.user_id = ret'.user_id) => ret' = ret]_vars

\* the state between two calls: a summary with data and a percentile has been
\* returned and the three files have been read
C27_Witness ==
    /\ HasData
    /\ ret.user_id = 1
    /\ "hf365_percentile" \in DOMAIN ret.res.v
    /\ Loaded
    /\ reads = 3

-----------------------------------------------------------------------------
(* The two caches, under SpecLoad *)

\* C29: whenever EXTERNAL_STATS is non-empty it has exactly the keys gym,
\* hf365 and health, and DATAFRAMES holds a dataset exactly if its entry has
\* exists = True, also while other threads are still inside the first load.
C29_CachesAgree ==
    Loaded =>
        /\ DOMAIN EXTERNAL_STATS = {"gym", "hf365", "health"}
        /\ \A key \in {"gym", "hf365", "health"} :
              key \in DOMAIN DATAFRAMES <=> EXTERNAL_STATS[key]["exists"]

\* one thread has published the mapping while another is still storing a
\* dataframe; one file is unreadable and one is absent
C29_Witness ==
    /\ Loaded
    /\ \E t \in Threads : threads[t].pc = "store"
    /\ files["gym"] = Unreadable
    /\ files["health"] = Absent
    /\ "hf365" \in DOMAIN DATAFRAMES

====
